---------------------------- MODULE Spec2Model ----------------------------
(***************************************************************************)
(* GaFi Prediction API (src/GaFi_Prediction/app.py): the model registry    *)
(* filled by load_models at startup and the /predict handler with its      *)
(* helpers is_school_month, predict_total, predict_categories and          *)
(* get_user_expenses.                                                      *)
(*                                                                         *)
(* Numbers.  The program computes with binary floats; the model computes   *)
(* with exact fixed-point decimals:                                        *)
(*   - money produced by a forecast model or read from the expenses table  *)
(*     is an integer number of thousandths (Milli);                        *)
(*   - a value after round(x, 2) is an integer number of hundredths;       *)
(*   - round(x, 2) is round-half-to-even on the exact decimal value;       *)
(*   - the covariate of is_school_month is an integer number of tenths;    *)
(*   - a yearly inflation rate is an integer number of thousandths and the *)
(*     inflation factor is a fixed-point number with FactorScale units per *)
(*     1.0.                                                                *)
(* The handler is "async def" without any await, so the event loop runs    *)
(* each request to completion: one action models the whole handler.        *)
(***************************************************************************)
EXTENDS Integers, Sequences, FiniteSets, TLC

VARIABLES
    models_dir,       \* what MODELS_DIR holds: the artifacts and the metadata document
    proc,             \* "init" | "serving" | "crashed": the process
    total_model,      \* global total_model: <<>> (None) or <<model>>
    category_models,  \* global category_models: sequence of [name, model] (dict, insertion order)
    metadata,         \* global metadata: function from key to value (dict)
    load_result,      \* what load_models returned: "none" | "true" | "false" | "raised"
    chan,             \* "idle" | "request" | "response": the HTTP exchange in flight
    req,              \* the PredictionRequest in flight
    resp,             \* the response of the handler: [status, body]
    locals,           \* the local values of the handler run that produced resp
    served            \* number of responses sent so far

vars == <<models_dir, proc, total_model, category_models, metadata, load_result,
          chan, req, resp, locals, served>>

registry == <<total_model, category_models, metadata>>

\* Number of requests one behaviour serves.
MaxRequests == 2

\* Fixed-point units of the inflation factor per 1.0.
FactorScale == 100 * 1000

\* Python's None, and Optional values as sequences of length 0 or 1.
None == <<>>
Some(x) == <<x>>

-----------------------------------------------------------------------------
(* Arithmetic helpers *)

\* The clamp taken as the magnitude: abs(float(x)).
ClampAbs(x) == IF x < 0 THEN -x ELSE x

\* max(0, float(x))
Clamp(x) == IF x < 0 THEN 0 ELSE x

\* round() of the exact quotient n / d (d > 0) to the nearest integer, ties to even.
RoundHalfEven(n, d) ==
    LET q == n \div d
        r == n % d
    IN  IF 2 * r > d \/ (2 * r = d /\ q % 2 = 1) THEN q + 1 ELSE q

RECURSIVE SumSeq(_)
SumSeq(s) == IF s = <<>> THEN 0 ELSE Head(s) + SumSeq(Tail(s))

\* The values of a dict, summed.
RECURSIVE SumValues(_)
SumValues(f) ==
    IF DOMAIN f = {} THEN 0
    ELSE LET k == CHOOSE x \in DOMAIN f : TRUE
         IN  f[k] + SumValues([x \in DOMAIN f \ {k} |-> f[x]])

EmptyDict == [k \in {} |-> 0]

\* d[key] = value
DictSet(d, key, value) == (key :> value) @@ d

\* d.get(key, default)
DictGet(d, key, default) == IF key \in DOMAIN d THEN d[key] ELSE default

-----------------------------------------------------------------------------
(* Static tables *)

CATEGORY_NAME_MAP ==
    [food_and_dining |-> "Food & Dining", transport |-> "Transport",
     shopping |-> "Shopping", groceries |-> "Groceries",
     entertainment |-> "Entertainment", electronics |-> "Electronics",
     school_supplies |-> "School Supplies", utilities |-> "Utilities",
     health |-> "Health", education |-> "Education", other |-> "Other"]

\* Philippine inflation rates, in thousandths.
PH_INFLATION ==
    (2020 :> 26) @@ (2021 :> 48) @@ (2022 :> 58) @@ (2023 :> 60) @@
    (2024 :> 32) @@ (2025 :> 35) @@ (2026 :> 34)

\* safe_name.replace("_", " ").title(), for the artifact names of the model
\* that CATEGORY_NAME_MAP does not hold.
TitleCase(safe_name) ==
    CASE safe_name = "pet_care" -> "Pet Care"
      [] safe_name = "food_&_dining" -> "Food & Dining"

\* CATEGORY_NAME_MAP.get(safe_name, safe_name.replace("_", " ").title())
DisplayName(safe_name) ==
    IF safe_name \in DOMAIN CATEGORY_NAME_MAP
    THEN CATEGORY_NAME_MAP[safe_name]
    ELSE TitleCase(safe_name)

-----------------------------------------------------------------------------
(* Forecast models.  A trained Prophet model is opaque to the program; the *)
(* model of it is linear in the covariate: yhat = a + b * is_school (b per *)
(* tenth), with its bounds at fixed offsets lo and hi of yhat.  A category *)
(* model may raise when it is invoked (fails).                             *)

TotalModel(a, b, lo, hi) == [a |-> a, b |-> b, lo |-> lo, hi |-> hi]
CatModel(a, b, fails) == [a |-> a, b |-> b, lo |-> -100, hi |-> 100, fails |-> fails]

\* forecast = model.predict(future); forecast.iloc[0]
ModelPredict(m, is_school) ==
    LET yhat == m.a + m.b * is_school
    IN  [yhat |-> yhat, yhat_lower |-> yhat + m.lo, yhat_upper |-> yhat + m.hi]

\* The artifacts prophet_total.pkl may hold (None: the file is absent).
TotalArtifacts ==
    { None,
      Some(TotalModel(3504, 200, -1000, 1000)),
      Some(TotalModel(-2000, 50, -500, 2500)),
      Some(TotalModel(995, 200, -3000, 1005)),
      Some(TotalModel(2000, 0, 500, -500)) }

Artifact(name, model, corrupt) == [name |-> name, model |-> model, corrupt |-> corrupt]

\* The prophet_<name>.pkl files of the models directory, in glob order.
CategoryArtifacts ==
    { <<>>,
      << Artifact("food_and_dining", CatModel(3000, 0, FALSE), FALSE),
         Artifact("transport", CatModel(1500, 0, FALSE), FALSE) >>,
      << Artifact("food_and_dining", CatModel(500, 50, FALSE), FALSE),
         Artifact("transport", CatModel(700, 0, TRUE), FALSE),
         Artifact("pet_care", CatModel(1000, 0, FALSE), FALSE) >>,
      << Artifact("groceries", CatModel(0, 0, FALSE), FALSE),
         Artifact("transport", CatModel(-200, 0, FALSE), FALSE),
         Artifact("health", CatModel(40, 0, TRUE), FALSE) >>,
      << Artifact("food_and_dining", CatModel(3000, 0, FALSE), FALSE),
         Artifact("food_&_dining", CatModel(1500, 0, FALSE), FALSE) >>,
      << Artifact("shopping", CatModel(800, 0, FALSE), FALSE),
         Artifact("transport", CatModel(1500, 0, FALSE), TRUE),
         Artifact("health", CatModel(40, 0, FALSE), FALSE) >> }

\* The documents metadata.json may hold (None: the file is absent).
MetadataArtifacts ==
    { None,
      Some([test_set_metrics |-> "metrics"]),
      Some([training_months |-> 5, test_set_metrics |-> "metrics"]),
      Some([training_months |-> 6]),
      Some([training_months |-> 11]),
      Some([training_months |-> 12]) }

\* total_corrupt: prophet_total.pkl exists and joblib.load raises on it.
Disk(total, categories, meta) ==
    [total |-> total, total_corrupt |-> FALSE, categories |-> categories, meta |-> meta]

CorruptTotalDisk(total, categories, meta) ==
    [total |-> total, total_corrupt |-> TRUE, categories |-> categories, meta |-> meta]

\* What the models directory may hold at startup: every total artifact with
\* every set of category artifacts (no metadata document), every total
\* artifact with every metadata document (no category artifacts), a parsable
\* total artifact with a corrupt category artifact and a metadata document,
\* and a corrupt total artifact.
Disks ==
    { Disk(t, c, None) : t \in TotalArtifacts, c \in CategoryArtifacts }
    \cup { Disk(t, <<>>, m) : t \in TotalArtifacts, m \in MetadataArtifacts }
    \cup { Disk(Some(TotalModel(3504, 200, -1000, 1000)),
                << Artifact("shopping", CatModel(800, 0, FALSE), FALSE),
                   Artifact("transport", CatModel(1500, 0, FALSE), TRUE),
                   Artifact("health", CatModel(40, 0, FALSE), FALSE) >>,
                Some([training_months |-> 12])),
           CorruptTotalDisk(Some(TotalModel(3504, 200, -1000, 1000)),
                << Artifact("shopping", CatModel(800, 0, FALSE), FALSE) >>,
                Some([training_months |-> 12])) }

\* The loop over MODELS_DIR.glob("prophet_*.pkl"): joblib.load of a corrupt
\* artifact raises, and the loop has no handler.
RECURSIVE LoadCategories(_, _)
LoadCategories(files, loaded) ==
    IF files = <<>> THEN [category_models |-> loaded, raised |-> FALSE]
    ELSE IF Head(files).corrupt THEN [category_models |-> loaded, raised |-> TRUE]
    ELSE LoadCategories(Tail(files),
             Append(loaded, [name |-> Head(files).name, model |-> Head(files).model]))

\* load_models() raising FileNotFoundError when prophet_total.pkl is absent.
load_models_raising_when_absent(disk, g_total, g_categories, g_metadata) ==
    IF disk.total = None \/ disk.total_corrupt
    THEN [total_model |-> g_total, category_models |-> g_categories,
          metadata |-> g_metadata, result |-> "raised"]
    ELSE LET cats == LoadCategories(disk.categories, g_categories)
         IN  IF cats.raised
             THEN [total_model |-> disk.total, category_models |-> cats.category_models,
                   metadata |-> g_metadata, result |-> "raised"]
             ELSE [total_model |-> disk.total, category_models |-> cats.category_models,
                   metadata |-> IF disk.meta = None THEN g_metadata ELSE disk.meta[1],
                   result |-> "true"]

\* load_models(): the globals it leaves, and how it ended.
load_models(disk, g_total, g_categories, g_metadata) ==
    IF disk.total = None
    THEN [total_model |-> g_total, category_models |-> g_categories,
          metadata |-> g_metadata, result |-> "false"]
    ELSE IF disk.total_corrupt
    THEN [total_model |-> g_total, category_models |-> g_categories,
          metadata |-> g_metadata, result |-> "raised"]
    ELSE LET cats == LoadCategories(disk.categories, g_categories)
         IN  IF cats.raised
             THEN [total_model |-> disk.total, category_models |-> cats.category_models,
                   metadata |-> g_metadata, result |-> "raised"]
             ELSE [total_model |-> disk.total, category_models |-> cats.category_models,
                   metadata |-> IF disk.meta = None THEN g_metadata ELSE disk.meta[1],
                   result |-> "true"]

-----------------------------------------------------------------------------
(* Dates.  A datetime is [year, month, off]: off is the time elapsed since *)
(* 00:00:00 of the first day of that month (0: exactly that instant).      *)

DateTime(year, month, off) == [year |-> year, month |-> month, off |-> off]

\* a > b on datetimes
DateGreater(a, b) ==
    \/ a.year > b.year
    \/ a.year = b.year /\ a.month > b.month
    \/ a.year = b.year /\ a.month = b.month /\ a.off > b.off

\* The two special months with their values exchanged.
is_school_month_swapped(ds) ==
    IF ds.month = 8 THEN 8
    ELSE IF ds.month = 1 THEN 5
    ELSE 10

\* is_school_month(ds), in tenths
is_school_month(ds) ==
    IF ds.month = 8 THEN 5
    ELSE IF ds.month = 1 THEN 8
    ELSE 10

-----------------------------------------------------------------------------
(* predict_total and predict_categories *)

\* predict_total taking the magnitude of a negative lower bound.
predict_total_abs_lower(tm, target_date) ==
    IF tm = None
    THEN [raised |-> TRUE, status_code |-> 503, calls |-> <<>>]
    ELSE LET is_school == is_school_month(target_date)
             row == ModelPredict(tm[1], is_school)
         IN  [raised |-> FALSE,
              calls |-> << "total_model.predict" >>,
              is_school |-> is_school,
              row |-> row,
              predicted |-> Clamp(row.yhat),
              lower |-> IF row.yhat_lower < 0 THEN -row.yhat_lower ELSE row.yhat_lower,
              upper |-> Clamp(row.yhat_upper)]

\* predict_total(target_date) with the global total_model = tm
predict_total(tm, target_date) ==
    IF tm = None
    THEN [raised |-> TRUE, status_code |-> 503, calls |-> <<>>]
    ELSE LET is_school == is_school_month(target_date)
             row == ModelPredict(tm[1], is_school)
         IN  [raised |-> FALSE,
              calls |-> << "total_model.predict" >>,
              is_school |-> is_school,
              row |-> row,
              predicted |-> Clamp(row.yhat),
              lower |-> Clamp(row.yhat_lower),
              upper |-> Clamp(row.yhat_upper)]

\* The loop of predict_categories over category_models.items(): the dict it
\* fills, model_total, and the models it invoked.
RECURSIVE CategoryLoop(_, _, _)

\* The loop with its try around the whole loop instead of around one
\* invocation: the first model that raises ends it.
CategoryLoopStopAtFailure(items, target_date, acc) ==
    IF items = <<>> THEN acc
    ELSE LET safe_name == Head(items).name
             cat_model == Head(items).model
             display_name == DisplayName(safe_name)
             called == Append(acc.calls, safe_name)
         IN  IF cat_model.fails
             THEN [cat_predictions |-> DictSet(acc.cat_predictions, display_name, 0),
                   model_total |-> acc.model_total,
                   calls |-> called]
             ELSE LET pred == Clamp(ModelPredict(cat_model, is_school_month(target_date)).yhat)
                  IN  CategoryLoop(Tail(items), target_date,
                          [cat_predictions |-> DictSet(acc.cat_predictions, display_name, pred),
                           model_total |-> acc.model_total + pred,
                           calls |-> called])

CategoryLoop(items, target_date, acc) ==
    IF items = <<>> THEN acc
    ELSE LET safe_name == Head(items).name
             cat_model == Head(items).model
             display_name == DisplayName(safe_name)
             called == Append(acc.calls, safe_name)
         IN  IF cat_model.fails
             THEN CategoryLoop(Tail(items), target_date,
                      [cat_predictions |-> DictSet(acc.cat_predictions, display_name, 0),
                       model_total |-> acc.model_total,
                       calls |-> called])
             ELSE LET pred == Clamp(ModelPredict(cat_model, is_school_month(target_date)).yhat)
                  IN  CategoryLoop(Tail(items), target_date,
                          [cat_predictions |-> DictSet(acc.cat_predictions, display_name, pred),
                           model_total |-> acc.model_total + pred,
                           calls |-> called])

CategoryForecasts(cms, target_date) ==
    CategoryLoop(cms, target_date,
                 [cat_predictions |-> EmptyDict, model_total |-> 0, calls |-> <<>>])

\* The scaled value cut to 2 decimals instead of rounded.
ScaledTruncated(pred, total_predicted, model_total) ==
    (pred * total_predicted) \div model_total

\* round(cat_predictions[cat] * scale_factor, 2), scale_factor = total_predicted / model_total
\* (pred and model_total in thousandths, total_predicted and the result in hundredths)
Scaled(pred, total_predicted, model_total) ==
    RoundHalfEven(pred * total_predicted, model_total)

\* With the fallback of the docstring: the whole total under "Other" when no
\* category model is registered.
predict_categories_with_fallback(cms, target_date, total_predicted) ==
    LET loop == CategoryForecasts(cms, target_date)
    IN  IF loop.model_total > 0
        THEN [cat \in DOMAIN loop.cat_predictions |->
                 Scaled(loop.cat_predictions[cat], total_predicted, loop.model_total)]
        ELSE IF cms = <<>> THEN ("Other" :> total_predicted)
        ELSE loop.cat_predictions

\* With an empty mapping returned when model_total is 0.
predict_categories_empty_on_zero(cms, target_date, total_predicted) ==
    LET loop == CategoryForecasts(cms, target_date)
    IN  IF loop.model_total > 0
        THEN [cat \in DOMAIN loop.cat_predictions |->
                 Scaled(loop.cat_predictions[cat], total_predicted, loop.model_total)]
        ELSE EmptyDict

\* predict_categories(target_date, total_predicted) with the global category_models = cms
predict_categories(cms, target_date, total_predicted) ==
    LET loop == CategoryForecasts(cms, target_date)
    IN  IF loop.model_total > 0
        THEN [cat \in DOMAIN loop.cat_predictions |->
                 Scaled(loop.cat_predictions[cat], total_predicted, loop.model_total)]
        ELSE loop.cat_predictions

-----------------------------------------------------------------------------
(* get_user_expenses *)

\* f"{year}-{month:02d}-01": the year, the two digits of the month, the two of the day
FormatDate(year, month) ==
    [yyyy |-> year, mm |-> << month \div 10, month % 10 >>, dd |-> << 0, 1 >>]

\* The date the database reads in a date text; a month outside 1..12 is no date.
ParseDate(text) ==
    LET month == 10 * text.mm[1] + text.mm[2]
        day == 10 * text.dd[1] + text.dd[2]
    IN  [valid |-> month \in 1..12 /\ day \in 1..31,
         year |-> text.yyyy, month |-> month, day |-> day]

\* December's end date left in the year of the request.
QueryRangeSameYear(month, year) ==
    [start_date |-> FormatDate(year, month),
     end_date |-> IF month = 12 THEN FormatDate(year, 1) ELSE FormatDate(year, month + 1)]

\* start_date and end_date of get_user_expenses(user_id, month, year)
QueryRange(month, year) ==
    [start_date |-> FormatDate(year, month),
     end_date |-> IF month = 12 THEN FormatDate(year + 1, 1) ELSE FormatDate(year, month + 1)]

\* str(category).lower().strip(), for the category texts of the model's rows
LowerStrip(text) ==
    CASE text = "Food" -> "food"
      [] text = " transport " -> "transport"
      [] text = "shopping" -> "shopping"
      [] text = "Pets" -> "pets"
      [] text = "others" -> "others"

cat_map ==
    ("food" :> "Food & Dining") @@ ("food & dining" :> "Food & Dining") @@
    ("transportation" :> "Transport") @@ ("transport" :> "Transport") @@
    ("shopping" :> "Shopping") @@ ("groceries" :> "Groceries") @@
    ("entertainment" :> "Entertainment") @@ ("electronics" :> "Electronics") @@
    ("school supplies" :> "School Supplies") @@ ("utilities" :> "Utilities") @@
    ("health" :> "Health") @@ ("education" :> "Education") @@
    ("other" :> "Other") @@ ("others" :> "Other")

\* float(e.get("amount", 0))
Amount(e) == IF "amount" \in DOMAIN e THEN e.amount ELSE 0

\* cat_map.get(str(e.get("category", "other")).lower().strip(), "Other")
CleanCategory(e) ==
    LET raw_cat == IF "category" \in DOMAIN e THEN LowerStrip(e.category) ELSE "other"
    IN  IF raw_cat \in DOMAIN cat_map THEN cat_map[raw_cat] ELSE "Other"

RECURSIVE CategoryBreakdown(_, _)
CategoryBreakdown(expenses, cat_spent) ==
    IF expenses = <<>> THEN cat_spent
    ELSE LET e == Head(expenses)
             clean_cat == CleanCategory(e)
         IN  CategoryBreakdown(Tail(expenses),
                 DictSet(cat_spent, clean_cat, DictGet(cat_spent, clean_cat, 0) + Amount(e)))

\* get_user_expenses(user_id, month, year), given the rows the query returned
get_user_expenses(expenses) ==
    [total_spent |-> SumSeq([i \in 1..Len(expenses) |-> Amount(expenses[i])]),
     category_spent |-> CategoryBreakdown(expenses, EmptyDict),
     transaction_count |-> Len(expenses)]

-----------------------------------------------------------------------------
(* The steps of the /predict handler *)

\* The handler without its check of the total model.
ModelMissingUnchecked(tm) == FALSE

\* total_model is None
ModelMissing(tm) == tm = None

\* The month check off by one at its lower end: not 0 <= req.month <= 12.
MonthInvalidFromZero(month) == ~(0 <= month /\ month <= 12)

\* not 1 <= req.month <= 12
MonthInvalid(month) == ~(1 <= month /\ month <= 12)

\* not 2020 <= req.year <= 2030
YearInvalid(year) == ~(2020 <= year /\ year <= 2030)

\* The comparison made on the years alone: target_date.year >= now.year.
IsFutureByYear(target_date, now) == target_date.year >= now.year

\* The comparison made with >= instead of >.
IsFutureOrNow(target_date, now) == ~DateGreater(now, target_date)

\* target_date > now
IsFuture(target_date, now) == DateGreater(target_date, now)

\* The difference taken from the target to now.
MonthsAheadReversed(target_date, now) ==
    (now.year - target_date.year) * 12 + (now.month - target_date.month)

\* (target_date.year - now.year) * 12 + (target_date.month - now.month)
MonthsAhead(target_date, now) ==
    (target_date.year - now.year) * 12 + (target_date.month - now.month)

\* The fallback of PH_INFLATION.get(target_date.year, 0.035), in thousandths.
DefaultRate == 35

\* PH_INFLATION.get(target_date.year, 0.035)
YearlyRate(year) == IF year \in DOMAIN PH_INFLATION THEN PH_INFLATION[year] ELSE DefaultRate

\* (1 + yearly_rate / 12) ** months_ahead, in FactorScale units: one month
\* multiplies by (12000 + rate) / 12000, a negative exponent divides.
RECURSIVE InflationFactor(_, _)

\* Simple interest: 1 + monthly_rate * months_ahead.
InflationFactorSimple(yearly_rate, months_ahead) ==
    FactorScale + (FactorScale * yearly_rate * months_ahead) \div 12000

InflationFactor(yearly_rate, months_ahead) ==
    IF months_ahead = 0 THEN FactorScale
    ELSE IF months_ahead > 0
    THEN LET f == InflationFactor(yearly_rate, months_ahead - 1)
         IN  f + (f * yearly_rate) \div 12000
    ELSE LET f == InflationFactor(yearly_rate, months_ahead + 1)
         IN  (f * 12000) \div (12000 + yearly_rate)

\* Step 2 of predict: total_pred after the inflation adjustment.  The three
\* fields are in units of 1 / (1000 * FactorScale).
ApplyInflation(total_pred, target_date, now) ==
    IF IsFuture(target_date, now)
    THEN LET months_ahead == MonthsAhead(target_date, now)
             inflation_factor == InflationFactor(YearlyRate(target_date.year), months_ahead)
         IN  [predicted |-> total_pred.predicted * inflation_factor,
              lower |-> total_pred.lower * inflation_factor,
              upper |-> total_pred.upper * inflation_factor,
              adjusted |-> TRUE, months_ahead |-> months_ahead,
              inflation_factor |-> inflation_factor]
    ELSE [predicted |-> total_pred.predicted * FactorScale,
          lower |-> total_pred.lower * FactorScale,
          upper |-> total_pred.upper * FactorScale,
          adjusted |-> FALSE, months_ahead |-> 0,
          inflation_factor |-> FactorScale]

\* round(total_pred[...], 2): hundredths of a value in units of 1 / (1000 * FactorScale)
Round2OfAdjusted(x) == RoundHalfEven(x, 10 * FactorScale)

\* round(x, 2): hundredths of a value in thousandths
Round2OfMilli(x) == RoundHalfEven(x, 10)

\* The default of monthly_budget, 10000, in thousandths.
DefaultBudget == 10000 * 1000

\* budget = req.monthly_budget or 10000   (None and 0 are falsy)
BudgetOf(monthly_budget) ==
    IF monthly_budget = None \/ monthly_budget[1] = 0
    THEN DefaultBudget
    ELSE monthly_budget[1]

\* The upper comparison made with >= instead of >.
BudgetStatusOverAtEqual(total_predicted, budget) ==
    IF 100 * total_predicted >= 11 * budget THEN "over_budget"
    ELSE IF 100 * total_predicted > 9 * budget THEN "near_budget"
    ELSE "within_budget"

\* The lower comparison made against the budget itself instead of budget * 0.9.
BudgetStatusNearAboveBudget(total_predicted, budget) ==
    IF 100 * total_predicted > 11 * budget THEN "over_budget"
    ELSE IF 100 * total_predicted > 10 * budget THEN "near_budget"
    ELSE "within_budget"

\* Step 6: total_predicted in hundredths, budget in thousandths;
\* total_predicted > budget * 1.1 is 100 * total_predicted > 11 * budget.
BudgetStatus(total_predicted, budget) ==
    IF 100 * total_predicted > 11 * budget THEN "over_budget"
    ELSE IF 100 * total_predicted > 9 * budget THEN "near_budget"
    ELSE "within_budget"

\* The comparisons made with > instead of >=.
ConfidenceOfStrict(training_months) ==
    IF training_months > 12 THEN "high"
    ELSE IF training_months > 6 THEN "medium"
    ELSE "low"

\* Step 7
ConfidenceOf(training_months) ==
    IF training_months >= 12 THEN "high"
    ELSE IF training_months >= 6 THEN "medium"
    ELSE "low"

\* metadata.get("training_months", 0)
TrainingMonths(meta) == DictGet(meta, "training_months", 0)

HTTPException(status_code, detail, calls) ==
    [resp |-> [status |-> status_code, detail |-> detail],
     locals |-> [calls |-> calls]]

\* A forecast-only answer when the expenses query raises.
LookupRaisedForecastOnly(forecast_locals) ==
    [resp |-> [status |-> 200,
               totalPredicted |-> forecast_locals.total_predicted,
               categoryPredictions |-> forecast_locals.cat_preds],
     locals |-> forecast_locals]

\* The exception of supabase's execute() leaves get_user_expenses and the
\* handler, neither has a handler for it: the framework answers 500.
LookupRaised(forecast_locals) ==
    [resp |-> [status |-> 500, detail |-> "Internal Server Error"],
     locals |-> forecast_locals]

\* projected_remaining without the floor at 0.
ProjectedRemainingUnclamped(total_predicted, spent_so_far) ==
    10 * total_predicted - spent_so_far

\* projected_remaining = max(0, total_predicted - spent_so_far), in
\* thousandths: total_predicted is in hundredths, spent_so_far in thousandths.
ProjectedRemaining(total_predicted, spent_so_far) ==
    Clamp(10 * total_predicted - spent_so_far)

\* The total handed to predict_categories taken before the inflation step.
ReconciliationTotalRaw(total_pred, total_predicted) == Round2OfMilli(total_pred.predicted)

\* The second argument of predict_categories(target_date, total_predicted)
ReconciliationTotal(total_pred, total_predicted) == total_predicted

\* The /predict handler: the response it sends and its local values, given
\* the request, the clock, the answer of the expenses query and the globals.
predict(request, now, db, tm, cms, meta) ==
    IF ModelMissing(tm)
    THEN HTTPException(503, "No trained model available. Run train_model.ipynb first.", <<>>)
    ELSE IF MonthInvalid(request.month)
    THEN HTTPException(400, "Month must be 1-12", <<>>)
    ELSE IF YearInvalid(request.year)
    THEN HTTPException(400, "Year must be 2020-2030", <<>>)
    ELSE
    LET target_date == DateTime(request.year, request.month, 0)
        total_pred == predict_total(tm, target_date)
    IN  IF total_pred.raised
        THEN HTTPException(total_pred.status_code, "Model not loaded", total_pred.calls)
        ELSE
        LET adj == ApplyInflation(total_pred, target_date, now)
            total_predicted == Round2OfAdjusted(adj.predicted)
            total_lower == Round2OfAdjusted(adj.lower)
            total_upper == Round2OfAdjusted(adj.upper)
            loop == CategoryForecasts(cms, target_date)
            cat_preds == predict_categories(cms, target_date,
                                            ReconciliationTotal(total_pred, total_predicted))
            forecast_locals ==
                [calls |-> total_pred.calls \o loop.calls \o << "supabase.execute" >>,
                 target_date |-> target_date,
                 now |-> now,
                 is_school |-> total_pred.is_school,
                 row |-> total_pred.row,
                 total_pred |-> [predicted |-> total_pred.predicted,
                                 lower |-> total_pred.lower,
                                 upper |-> total_pred.upper],
                 adj |-> adj,
                 total_predicted |-> total_predicted,
                 forecasts |-> loop.cat_predictions,
                 model_total |-> loop.model_total,
                 cat_preds |-> cat_preds,
                 query |-> QueryRange(request.month, request.year),
                 lookup_raised |-> ~db.ok]
        IN  IF ~db.ok
            THEN LookupRaised(forecast_locals)
            ELSE
            LET actual == get_user_expenses(db.data)
                spent_so_far == actual.total_spent
                projected_remaining == ProjectedRemaining(total_predicted, spent_so_far)
                budget == BudgetOf(request.monthly_budget)
                training_months == TrainingMonths(meta)
            IN  [resp |->
                    [status |-> 200,
                     totalPredicted |-> total_predicted,
                     totalPredictedLower |-> total_lower,
                     totalPredictedUpper |-> total_upper,
                     spentSoFar |-> Round2OfMilli(spent_so_far),
                     projectedRemaining |-> Round2OfMilli(projected_remaining),
                     budgetStatus |-> BudgetStatus(total_predicted, budget),
                     confidenceLevel |-> ConfidenceOf(training_months),
                     predictionMethod |-> "Prophet ML Model",
                     categoryPredictions |-> cat_preds,
                     categorySpent |-> actual.category_spent,
                     transactionCount |-> actual.transaction_count],
                 locals |-> forecast_locals
                            @@ [spent_so_far |-> spent_so_far,
                                budget |-> budget,
                                training_months |-> training_months]]

-----------------------------------------------------------------------------
(* Inputs *)

PredictionRequest(month, year, monthly_budget) ==
    [user_id |-> "u1", month |-> month, year |-> year, monthly_budget |-> monthly_budget]

Months == {0, 1, 8, 12, 13}
Years == {2019, 2020, 2026, 2027, 2030, 2031}
Budgets == {None, Some(0), Some(4000), Some(5000), Some(5500)}

Requests == { PredictionRequest(m, y, b) : m \in Months, y \in Years, b \in Budgets }

\* Values of datetime.now()
Nows == { DateTime(2026, 12, 0), DateTime(2026, 12, 1), DateTime(2026, 10, 1) }

Row(amount, category) == [amount |-> amount, category |-> category]

\* Answers of the expenses query: the rows, or a failure of the call.
DbResults ==
    { [ok |-> FALSE],
      [ok |-> TRUE, data |-> <<>>],
      [ok |-> TRUE, data |-> << Row(1250, "Food"), Row(2250, " transport "), Row(125, "Food") >>],
      [ok |-> TRUE, data |-> << Row(-2500, "shopping"), [amount |-> 500] >>],
      [ok |-> TRUE, data |-> << Row(9000, "Pets"), [category |-> "others"] >>] }

NoRequest == [user_id |-> "", month |-> 0, year |-> 0, monthly_budget |-> None]
NoResponse == [status |-> 0]
NoLocals == [calls |-> <<>>]

-----------------------------------------------------------------------------
(* Actions *)

Init ==
    /\ models_dir \in Disks
    /\ proc = "init"
    /\ total_model = None
    /\ category_models = <<>>
    /\ metadata = EmptyDict
    /\ load_result = "none"
    /\ chan = "idle"
    /\ req = NoRequest
    /\ resp = NoResponse
    /\ locals = NoLocals
    /\ served = 0

\* @app.on_event("startup"): load_models() on what the models directory holds.
\* An exception in the startup handler ends the process before it serves.
Startup ==
    /\ proc = "init"
    /\ LET r == load_models(models_dir, total_model, category_models, metadata)
       IN  /\ total_model' = r.total_model
           /\ category_models' = r.category_models
           /\ metadata' = r.metadata
           /\ load_result' = r.result
           /\ proc' = IF r.result = "raised" THEN "crashed" ELSE "serving"
    /\ UNCHANGED <<models_dir, chan, req, resp, locals, served>>

\* A client posts a request to /predict.
Receive ==
    /\ proc = "serving"
    /\ chan = "idle"
    /\ served < MaxRequests
    /\ \E r \in Requests : req' = r
    /\ chan' = "request"
    /\ UNCHANGED <<models_dir, proc, total_model, category_models, metadata, load_result,
                   resp, locals, served>>

\* The handler taking the category models that raise off the registry.
PredictDroppingFailedModels ==
    /\ proc = "serving"
    /\ chan = "request"
    /\ \E now \in Nows, db \in DbResults :
         LET out == predict(req, now, db, total_model, category_models, metadata)
         IN  /\ resp' = out.resp
             /\ locals' = out.locals
    /\ chan' = "response"
    /\ served' = served + 1
    /\ category_models' = SelectSeq(category_models, LAMBDA item : ~item.model.fails)
    /\ UNCHANGED <<models_dir, proc, total_model, metadata, load_result, req>>

\* The handler runs to completion.
Predict ==
    /\ proc = "serving"
    /\ chan = "request"
    /\ \E now \in Nows, db \in DbResults :
         LET out == predict(req, now, db, total_model, category_models, metadata)
         IN  /\ resp' = out.resp
             /\ locals' = out.locals
    /\ chan' = "response"
    /\ served' = served + 1
    /\ UNCHANGED <<models_dir, proc, total_model, category_models, metadata, load_result, req>>

\* The response leaves the server.
Deliver ==
    /\ chan = "response"
    /\ chan' = "idle"
    /\ req' = NoRequest
    /\ resp' = NoResponse
    /\ locals' = NoLocals
    /\ UNCHANGED <<models_dir, proc, total_model, category_models, metadata, load_result, served>>

Next == Startup \/ Receive \/ Predict \/ Deliver

Spec == Init /\ [][Next]_vars

-----------------------------------------------------------------------------
(* Properties *)

\* A handler run got as far as the forecasts (it answered 200, or 500 after
\* the expenses query failed).
Forecasted == chan = "response" /\ resp.status \in {200, 500}

Answered200 == chan = "response" /\ resp.status = 200

\* C1: whenever model_total > 0, the values of the mapping predict_categories
\* returns sum to the total_predicted it was given, within 0.01 per
\* registered category model.
C1_ReconciliationSum ==
    (Forecasted /\ locals.model_total > 0) =>
        LET diff == SumValues(locals.cat_preds) - locals.total_predicted
        IN  /\ diff <= Len(category_models)
            /\ -diff <= Len(category_models)

\* C2: predict_total returns predicted, lower and upper >= 0: a negative
\* model value becomes 0, a non-negative one is returned as it is.
C2_TotalClamped ==
    Forecasted =>
        /\ locals.total_pred.predicted >= 0
        /\ locals.total_pred.lower >= 0
        /\ locals.total_pred.upper >= 0
        /\ locals.total_pred.predicted = (IF locals.row.yhat < 0 THEN 0 ELSE locals.row.yhat)
        /\ locals.total_pred.lower =
               (IF locals.row.yhat_lower < 0 THEN 0 ELSE locals.row.yhat_lower)
        /\ locals.total_pred.upper =
               (IF locals.row.yhat_upper < 0 THEN 0 ELSE locals.row.yhat_upper)

\* C2's case: the model returned a negative yhat and yhat_lower and a positive yhat_upper.
C2_Witness ==
    /\ Forecasted
    /\ locals.row.yhat < 0
    /\ locals.row.yhat_lower < 0
    /\ locals.row.yhat_upper > 0
    /\ locals.total_pred.predicted = 0
    /\ locals.total_pred.upper = locals.row.yhat_upper

\* C3: every numeric field of a successful /predict response is >= 0.
C3_ResponseNonNegative ==
    Answered200 =>
        /\ resp.totalPredicted >= 0
        /\ resp.totalPredictedLower >= 0
        /\ resp.totalPredictedUpper >= 0
        /\ resp.spentSoFar >= 0
        /\ resp.projectedRemaining >= 0
        /\ resp.transactionCount >= 0
        /\ \A cat \in DOMAIN resp.categoryPredictions : resp.categoryPredictions[cat] >= 0
        /\ \A cat \in DOMAIN resp.categorySpent : resp.categorySpent[cat] >= 0

\* The request in flight has a month outside 1..12 or a year outside 2020..2030.
OutOfRange == req.month < 1 \/ req.month > 12 \/ req.year < 2020 \/ req.year > 2030

\* C4 as stated: a request with month or year out of range is answered 400 in
\* every state of the model registry.
C4_Always400 ==
    (chan = "response" /\ OutOfRange) => resp.status = 400

\* C4 amended: a request with month or year out of range is answered 400
\* when the total model is loaded, and 503 when it is not.
C4_InvalidInput ==
    (chan = "response" /\ OutOfRange) =>
        /\ total_model # None => resp.status = 400 /\ locals.calls = <<>>
        /\ total_model = None => resp.status = 503

\* C4's case: the registry is ready and the request is out of range.
C4_Witness ==
    /\ chan = "response"
    /\ OutOfRange
    /\ total_model # None
    /\ resp.status = 400

\* C5: while no total model is loaded, predict_total fails with 503 for
\* every date and every /predict request is answered 503 without invoking a
\* model; the registry is left as it was and the process keeps serving.
C5_Unavailable ==
    [][(chan = "request" /\ total_model = None /\ chan' = "response") =>
          /\ resp'.status = 503
          /\ locals'.calls = <<>>
          /\ registry' = registry
          /\ proc' = "serving"
          /\ \A r \in Requests :
                LET out == predict_total(total_model, DateTime(r.year, r.month, 0))
                IN  out.raised /\ out.status_code = 503 /\ out.calls = <<>>]_vars

\* C5's case: a second request is answered 503 after a first one was served
\* by the same process with no total model.
C5_Witness ==
    /\ chan = "response"
    /\ total_model = None
    /\ served = 2
    /\ resp.status = 503
    /\ ~OutOfRange

\* C6: the status is over_budget when predictedTotal > budget * 1.1,
\* near_budget when budget * 0.9 < predictedTotal <= budget * 1.1, and
\* within_budget otherwise, for the budget the classifier is given
\* (total_predicted in hundredths, budget in thousandths).
C6_BudgetClassification ==
    Answered200 =>
        LET p == 100 * resp.totalPredicted
            over == p > 11 * locals.budget
            near == 9 * locals.budget < p /\ p <= 11 * locals.budget
        IN  /\ resp.budgetStatus \in {"over_budget", "near_budget", "within_budget"}
            /\ over => resp.budgetStatus = "over_budget"
            /\ near => resp.budgetStatus = "near_budget"
            /\ (~over /\ ~near) => resp.budgetStatus = "within_budget"

\* C6's case: the predicted total is exactly budget * 1.1, and near_budget is returned.
C6_Witness ==
    /\ Answered200
    /\ 100 * resp.totalPredicted = 11 * locals.budget
    /\ resp.budgetStatus = "near_budget"

\* The predicted total of the response equals the budget of the classifier.
AtBudget == Answered200 /\ 10 * resp.totalPredicted = locals.budget

\* C7 as stated: when the predicted total equals the budget, the status is within_budget.
C7_WithinAtBudget == AtBudget => resp.budgetStatus = "within_budget"

\* C7 amended: when the predicted total equals the budget the classifier
\* uses, the status is near_budget.
C7_NearAtBudget == AtBudget => resp.budgetStatus = "near_budget"

\* C7's case: a response whose predicted total equals the requested budget.
C7_Witness ==
    /\ AtBudget
    /\ req.monthly_budget = Some(10 * resp.totalPredicted)

\* C8: training_months >= 12 gives high, 6..11 medium, below 6 low; with no
\* training_months entry in the metadata (or no metadata) the value is 0 and
\* the confidence is low.
C8_Confidence ==
    Answered200 =>
        /\ "training_months" \notin DOMAIN metadata =>
               locals.training_months = 0 /\ resp.confidenceLevel = "low"
        /\ "training_months" \in DOMAIN metadata =>
               /\ locals.training_months = metadata.training_months
               /\ metadata.training_months >= 12 => resp.confidenceLevel = "high"
               /\ (6 <= metadata.training_months /\ metadata.training_months <= 11) =>
                      resp.confidenceLevel = "medium"
               /\ metadata.training_months < 6 => resp.confidenceLevel = "low"

\* C8's case: a response under metadata with training_months = 6.
C8_Witness ==
    /\ Answered200
    /\ "training_months" \in DOMAIN metadata
    /\ metadata.training_months = 6
    /\ resp.confidenceLevel = "medium"

\* C9: is_school_month is 0.5 for month 8, 0.8 for month 1 and 1.0 for
\* every other month, whatever the year.
C9_SchoolMonth ==
    /\ \A y \in Years, m \in 1..12 :
           is_school_month(DateTime(y, m, 0)) =
               (CASE m = 8 -> 5 [] m = 1 -> 8 [] OTHER -> 10)
    /\ Forecasted =>
           locals.is_school =
               (CASE req.month = 8 -> 5 [] req.month = 1 -> 8 [] OTHER -> 10)

\* C9's case: a forecast for an August, computed with the covariate 0.5.
C9_Witness ==
    /\ Forecasted
    /\ req.month = 8
    /\ locals.is_school = 5

\* The target date (the first day of the requested month, 00:00) is <= now.
TargetNotAfterNow ==
    \/ req.year < locals.now.year
    \/ req.year = locals.now.year /\ req.month < locals.now.month
    \/ req.year = locals.now.year /\ req.month = locals.now.month /\ 0 <= locals.now.off

\* C10: when the target date is <= now, point, lower and upper after the
\* inflation step are exactly the clamped model outputs.
C10_NoAdjustmentForPast ==
    (Forecasted /\ TargetNotAfterNow) =>
        /\ locals.adj.predicted = locals.total_pred.predicted * FactorScale
        /\ locals.adj.lower = locals.total_pred.lower * FactorScale
        /\ locals.adj.upper = locals.total_pred.upper * FactorScale

\* C10's case: a positive forecast for a month that began before now, in
\* the year of now.
C10_Witness ==
    /\ Forecasted
    /\ req.year = locals.now.year
    /\ req.month < locals.now.month
    /\ locals.total_pred.predicted > 0
    /\ locals.adj.predicted = locals.total_pred.predicted * FactorScale

\* The handler applied the inflation adjustment to a forecast.
Adjusted == Forecasted /\ locals.adj.adjusted

\* monthsAhead of the request in flight, from the dates of the run.
RunMonthsAhead ==
    (req.year - locals.now.year) * 12 + (req.month - locals.now.month)

\* The value v adjusted for m months ahead at the rate of the target year.
AdjustedAt(v, m) == v * InflationFactor(YearlyRate(req.year), m)

\* C11 as stated: for the target year's rate and a fixed forecast, the
\* adjusted output for monthsAhead is strictly above the adjusted output for
\* every smaller number of months, for each of point, lower and upper.
C11_StrictlyIncreasing ==
    Adjusted =>
        \A m \in 0..(RunMonthsAhead - 1) :
            /\ AdjustedAt(locals.total_pred.predicted, m) < locals.adj.predicted
            /\ AdjustedAt(locals.total_pred.lower, m) < locals.adj.lower
            /\ AdjustedAt(locals.total_pred.upper, m) < locals.adj.upper

\* v adjusted grows strictly with the months when v > 0 and stays 0 when v = 0.
GrowsUnlessZero(v, adjusted) ==
    /\ v > 0 => \A m \in 0..(RunMonthsAhead - 1) : AdjustedAt(v, m) < adjusted
    /\ v = 0 => adjusted = 0

\* C11 amended: for the target year's rate and a fixed forecast value that
\* is strictly positive, the adjusted output strictly increases with
\* monthsAhead; a forecast value of 0 stays 0 for every monthsAhead.
C11_IncreasingWhenPositive ==
    Adjusted =>
        /\ YearlyRate(req.year) > 0
        /\ GrowsUnlessZero(locals.total_pred.predicted, locals.adj.predicted)
        /\ GrowsUnlessZero(locals.total_pred.lower, locals.adj.lower)
        /\ GrowsUnlessZero(locals.total_pred.upper, locals.adj.upper)

\* C11's case: a positive point forecast adjusted for at least two months ahead.
C11_Witness ==
    /\ Adjusted
    /\ RunMonthsAhead >= 2
    /\ locals.total_pred.predicted > 0
    /\ locals.adj.predicted > AdjustedAt(locals.total_pred.predicted, 1)

\* The clamped point estimate of the i-th registered category model for the
\* month of the request (0 when the model raises).
Estimate(i) ==
    LET m == category_models[i].model
        cov == CASE req.month = 8 -> 5 [] req.month = 1 -> 8 [] OTHER -> 10
        yhat == m.a + m.b * cov
    IN  IF m.fails \/ yhat < 0 THEN 0 ELSE yhat

\* No other registered category model has the display name of the i-th.
OwnDisplayName(i) ==
    \A j \in 1..Len(category_models) :
        DisplayName(category_models[j].name) = DisplayName(category_models[i].name) => j = i

\* C12: when a category model raises, the handler still gets past the
\* forecasts, every registered category model has been invoked in order,
\* the failing model adds 0 to model_total and its category is returned
\* with the value 0, and the other models are reconciled.
C12_CategoryFailureContained ==
    (chan = "response" /\ total_model # None /\ ~OutOfRange) =>
        /\ resp.status \in {200, 500}
        /\ SubSeq(locals.calls, 2, Len(locals.calls) - 1) =
               [i \in 1..Len(category_models) |-> category_models[i].name]
        /\ locals.model_total =
               SumSeq([i \in 1..Len(category_models) |-> Estimate(i)])
        /\ \A i \in 1..Len(category_models) :
               (category_models[i].model.fails /\ OwnDisplayName(i)) =>
                   /\ DisplayName(category_models[i].name) \in DOMAIN locals.cat_preds
                   /\ locals.cat_preds[DisplayName(category_models[i].name)] = 0
        /\ resp.status = 200 => resp.categoryPredictions = locals.cat_preds

\* C12's case: the second of three category models raised, the third was
\* invoked after it and has a positive reconciled value in the response.
C12_Witness ==
    /\ Answered200
    /\ Len(category_models) = 3
    /\ category_models[2].model.fails
    /\ locals.calls[4] = category_models[3].name
    /\ resp.categoryPredictions[DisplayName(category_models[2].name)] = 0
    /\ resp.categoryPredictions[DisplayName(category_models[3].name)] > 0


\* A valid request was handled with the total model loaded and no category
\* model registered.
NoCategoryModels ==
    chan = "response" /\ total_model # None /\ category_models = <<>> /\ ~OutOfRange

CalendarDays(year) ==
    { [year |-> y, month |-> m, day |-> d] :
          y \in (year - 1)..(year + 1), m \in 1..12, d \in {1, 15, 31} }

\* Day a is on or before day b.
NotAfter(a, b) ==
    \/ a.year < b.year
    \/ a.year = b.year /\ a.month < b.month
    \/ a.year = b.year /\ a.month = b.month /\ a.day <= b.day

\* The half-open range [start_date, end_date) starts on the first day of the
\* month, ends on the first day of a month, and holds exactly the days of
\* that calendar month.
CoversMonth(range, month, year) ==
    LET first == ParseDate(range.start_date)
        last == ParseDate(range.end_date)
    IN  /\ first.valid /\ last.valid
        /\ first.year = year /\ first.month = month /\ first.day = 1
        /\ last.day = 1
        /\ \A d \in CalendarDays(year) :
               (NotAfter(first, d) /\ ~NotAfter(last, d))
                   <=> (d.year = year /\ d.month = month)

\* C16: the range get_user_expenses queried for a valid request is
\* [year-month-01, first day of the next month) and covers exactly the
\* requested calendar month, and so does the range for each month 1..12 of
\* the requested year, December's range ending on January 1 of year + 1.
C16_DateRange ==
    Forecasted =>
        /\ CoversMonth(locals.query, req.month, req.year)
        /\ \A month \in 1..12 : CoversMonth(QueryRange(month, req.year), month, req.year)
        /\ ParseDate(QueryRange(12, req.year).end_date)
               = [valid |-> TRUE, year |-> req.year + 1, month |-> 1, day |-> 1]

\* C16's case: the expenses of a December were queried, up to January 1 of
\* the next year.
C16_Witness ==
    /\ Forecasted
    /\ req.month = 12
    /\ "supabase.execute" = locals.calls[Len(locals.calls)]
    /\ ParseDate(locals.query.end_date).year = req.year + 1
    /\ ParseDate(locals.query.end_date).month = 1


\* The total point estimate after the inflation step, rounded to 2 decimals
\* (hundredths), and the raw model total rounded the same way.
AdjustedTotal == RoundHalfEven(locals.adj.predicted, 10 * FactorScale)
RawTotal == RoundHalfEven(locals.total_pred.predicted, 10)

\* C17: in every handler run the total model is invoked before any category
\* model, the total given to the reconciliation is the total after the
\* inflation step, and whenever model_total > 0 each category value is its
\* forecast scaled to that adjusted total, not to the raw model total.
C17_ReconcilesToAdjustedTotal ==
    Forecasted =>
        /\ locals.calls[1] = "total_model.predict"
        /\ \A i \in 2..Len(locals.calls) : locals.calls[i] # "total_model.predict"
        /\ locals.total_predicted = AdjustedTotal
        /\ Adjusted => locals.adj.predicted
                          = locals.total_pred.predicted * locals.adj.inflation_factor
        /\ locals.model_total > 0 =>
               \A cat \in DOMAIN locals.cat_preds :
                   locals.cat_preds[cat] =
                       RoundHalfEven(locals.forecasts[cat] * AdjustedTotal, locals.model_total)

\* C17's case: the adjusted total differs from the raw one, and a category
\* value is the one scaled to the adjusted total and not the one scaled to
\* the raw total.
C17_Witness ==
    /\ Answered200
    /\ Adjusted
    /\ locals.model_total > 0
    /\ AdjustedTotal > RawTotal
    /\ resp.totalPredicted = AdjustedTotal
    /\ \E cat \in DOMAIN resp.categoryPredictions :
           /\ resp.categoryPredictions[cat]
                  = RoundHalfEven(locals.forecasts[cat] * AdjustedTotal, locals.model_total)
           /\ resp.categoryPredictions[cat]
                  # RoundHalfEven(locals.forecasts[cat] * RawTotal, locals.model_total)

\* The registered display names, the last registered model of a display
\* name (the one whose estimate the mapping keeps), and the sum of the
\* clamped estimates of all registered models.
DisplayNames == { DisplayName(category_models[i].name) : i \in 1..Len(category_models) }

LastOf(cat) ==
    CHOOSE i \in 1..Len(category_models) :
        /\ DisplayName(category_models[i].name) = cat
        /\ \A j \in (i + 1)..Len(category_models) : DisplayName(category_models[j].name) # cat

RECURSIVE SumEstimates(_)
SumEstimates(n) == IF n = 0 THEN 0 ELSE SumEstimates(n - 1) + Estimate(n)

\* C18: when the sum of the clamped category estimates is > 0, the returned
\* mapping has one value per registered display name, and each value is the
\* clamped estimate times total_predicted / model_total rounded to 2
\* decimals.
C18_ProportionalReconciliation ==
    (Forecasted /\ SumEstimates(Len(category_models)) > 0) =>
        /\ DOMAIN locals.cat_preds = DisplayNames
        /\ \A cat \in DisplayNames :
               locals.cat_preds[cat] =
                   RoundHalfEven(Estimate(LastOf(cat)) * locals.total_predicted,
                                 SumEstimates(Len(category_models)))
        /\ resp.status = 200 => resp.categoryPredictions = locals.cat_preds

\* C18's case: estimates 3000 and 1500 reconciled to an adjusted total T:
\* T * 3000 / 4500 and T * 1500 / 4500.
C18_Witness ==
    /\ Answered200
    /\ Adjusted
    /\ Len(category_models) = 2
    /\ Estimate(1) = 3000 /\ Estimate(2) = 1500
    /\ resp.totalPredicted > 0
    /\ DOMAIN resp.categoryPredictions = {"Food & Dining", "Transport"}
    /\ resp.categoryPredictions["Food & Dining"] = RoundHalfEven(3000 * resp.totalPredicted, 4500)
    /\ resp.categoryPredictions["Transport"] = RoundHalfEven(1500 * resp.totalPredicted, 4500)

\* (1 + rate / 12) ^ n for n >= 0, in FactorScale units: n multiplications by
\* (12000 + rate) / 12000, rate in thousandths.
RECURSIVE Compound(_, _)
Compound(rate, n) ==
    IF n = 0 THEN FactorScale ELSE (Compound(rate, n - 1) * (12000 + rate)) \div 12000

\* C19: for a target after now, months_ahead =
\* (target year - now year) * 12 + (target month - now month), the yearly
\* rate is the table's entry for the target year, or 0.035 for a year the
\* table does not hold (2027..2030), and predicted, lower and upper are all
\* multiplied by (1 + rate / 12) ^ months_ahead.
C19_InflationAdjustment ==
    (Forecasted /\ DateGreater(locals.target_date, locals.now)) =>
        LET months == (req.year - locals.now.year) * 12 + (req.month - locals.now.month)
            rate == IF req.year \in 2027..2030 THEN 35 ELSE PH_INFLATION[req.year]
            factor == Compound(rate, months)
        IN  /\ locals.adj.adjusted
            /\ locals.adj.months_ahead = months
            /\ months > 0
            /\ locals.adj.predicted = locals.total_pred.predicted * factor
            /\ locals.adj.lower = locals.total_pred.lower * factor
            /\ locals.adj.upper = locals.total_pred.upper * factor
            /\ resp.status = 200 =>
                   /\ resp.totalPredicted
                          = RoundHalfEven(locals.total_pred.predicted * factor, 10 * FactorScale)
                   /\ resp.totalPredictedLower
                          = RoundHalfEven(locals.total_pred.lower * factor, 10 * FactorScale)
                   /\ resp.totalPredictedUpper
                          = RoundHalfEven(locals.total_pred.upper * factor, 10 * FactorScale)

\* C19's case: a target in 2027, which the table does not hold, several
\* months ahead, with three different positive forecast fields.
C19_Witness ==
    /\ Answered200
    /\ req.year = 2027
    /\ locals.adj.months_ahead >= 2
    /\ locals.adj.inflation_factor = Compound(35, locals.adj.months_ahead)
    /\ 0 < locals.total_pred.lower
    /\ locals.total_pred.lower < locals.total_pred.predicted
    /\ locals.total_pred.predicted < locals.total_pred.upper
    /\ resp.totalPredicted > RawTotal

\* Category models are registered and every one gave 0 or raised.
AllCategoriesZero ==
    /\ Forecasted
    /\ Len(category_models) > 0
    /\ SumEstimates(Len(category_models)) = 0

\* C20 as stated: when every registered category model gives 0 or raises,
\* predict_categories returns the empty mapping.
C20_EmptyWhenAllZero ==
    AllCategoriesZero => DOMAIN locals.cat_preds = {}

\* C20 amended: when every registered category model gives 0 or raises, the
\* scaling is skipped and predict_categories returns the unscaled mapping:
\* one entry per registered display name, each with the value 0.
C20_ZerosWhenAllZero ==
    AllCategoriesZero =>
        /\ locals.model_total = 0
        /\ DOMAIN locals.cat_preds = DisplayNames
        /\ \A cat \in DisplayNames : locals.cat_preds[cat] = 0
        /\ resp.status = 200 => resp.categoryPredictions = locals.cat_preds

\* C20's case: three registered models (one gives 0, one a negative value,
\* one raises) and a positive total: three entries, all 0.
C20_Witness ==
    /\ Answered200
    /\ AllCategoriesZero
    /\ Len(category_models) = 3
    /\ \E i \in 1..3 : category_models[i].model.fails
    /\ resp.totalPredicted > 0
    /\ DOMAIN resp.categoryPredictions = {"Groceries", "Transport", "Health"}
    /\ \A cat \in DOMAIN resp.categoryPredictions : resp.categoryPredictions[cat] = 0


\* load_models() has run.
Loaded == proc # "init"

\* prophet_total.pkl exists and joblib.load reads it.
TotalLoadable == models_dir.total # None /\ ~models_dir.total_corrupt

\* C21: with prophet_total.pkl absent, load_models returns False without
\* raising (the process goes on to serve), loads nothing and leaves
\* total_model unset, so that every request is answered 503; total_model is
\* set exactly when the total artifact was loaded, and it is that artifact.
C21_LoadReportsMissingTotal ==
    Loaded =>
        /\ models_dir.total = None =>
               /\ load_result = "false"
               /\ proc = "serving"
               /\ total_model = None /\ category_models = <<>> /\ metadata = EmptyDict
               /\ chan = "response" => resp.status = 503
        /\ total_model # None <=> TotalLoadable
        /\ total_model # None => total_model = models_dir.total
        /\ load_result = "true" => total_model # None

\* C21's case: the directory holds category artifacts and no total artifact;
\* load_models returned False, nothing is registered and a request got 503.
C21_Witness ==
    /\ Loaded
    /\ models_dir.total = None
    /\ models_dir.categories # <<>>
    /\ load_result = "false"
    /\ total_model = None
    /\ chan = "response"
    /\ resp.status = 503


\* The category artifacts of the directory that joblib.load reads, as registry entries.
ParsableCategories ==
    LET ok == SelectSeq(models_dir.categories, LAMBDA f : ~f.corrupt)
    IN  [i \in 1..Len(ok) |-> [name |-> ok[i].name, model |-> ok[i].model]]

\* C22: when the total artifact loads and a category artifact fails to
\* parse, load_models skips that artifact, registers the other category
\* artifacts and the metadata, returns True and the process serves.
C22_CategoryArtifactsBestEffort ==
    (Loaded /\ TotalLoadable /\ \E i \in 1..Len(models_dir.categories) : models_dir.categories[i].corrupt) =>
        /\ load_result = "true"
        /\ proc = "serving"
        /\ category_models = ParsableCategories
        /\ metadata = IF models_dir.meta = None THEN EmptyDict ELSE models_dir.meta[1]


\* C23: the status of a successful response is the classification of
\* totalPredicted against the budget of the request as it was given, 0
\* included; 10000 is the budget only when the request has none.
C23_BudgetAsGiven ==
    Answered200 =>
        LET given == IF req.monthly_budget = None THEN 10000 * 1000 ELSE req.monthly_budget[1]
            p == 100 * resp.totalPredicted
        IN  resp.budgetStatus =
                (IF p > 11 * given THEN "over_budget"
                 ELSE IF p > 9 * given THEN "near_budget"
                 ELSE "within_budget")


\* C24: the expenses query is the last call of a handler run, after the
\* total model and every registered category model were invoked, and the
\* forecasts exist whether it raises or not; when it raises the request
\* fails with status 500 and the response carries no forecast, when it
\* answers the request succeeds with the forecasts computed before it.
C24_LookupAfterForecasts ==
    (chan = "response" /\ total_model # None /\ ~OutOfRange) =>
        /\ Len(locals.calls) = Len(category_models) + 2
        /\ locals.calls[Len(locals.calls)] = "supabase.execute"
        /\ \A i \in 1..(Len(locals.calls) - 1) : locals.calls[i] # "supabase.execute"
        /\ locals.total_predicted = AdjustedTotal
        /\ DOMAIN locals.cat_preds = DisplayNames
        /\ locals.lookup_raised =>
               /\ resp.status = 500
               /\ DOMAIN resp = {"status", "detail"}
        /\ ~locals.lookup_raised =>
               /\ resp.status = 200
               /\ resp.totalPredicted = locals.total_predicted
               /\ resp.categoryPredictions = locals.cat_preds

\* C24's case: the query raised after a positive total and two category
\* forecasts were computed, and the request failed.
C24_Witness ==
    /\ chan = "response"
    /\ resp.status = 500
    /\ locals.lookup_raised
    /\ locals.total_predicted > 0
    /\ Len(category_models) = 2
    /\ locals.model_total > 0
    /\ \A cat \in DOMAIN locals.cat_preds : locals.cat_preds[cat] > 0


\* C25: the mapping predict_categories returns has exactly one entry per
\* registered category model, also when a model raises, and the entries
\* before scaling add up to model_total.
C25_OneEntryPerModel ==
    Forecasted =>
        /\ Cardinality(DOMAIN locals.cat_preds) = Len(category_models)
        /\ SumValues(locals.forecasts) = locals.model_total


\* C26: the inflation step is applied exactly when the target (the first day
\* of the requested month at 00:00) is after now, and then months_ahead is
\* at least 1: the exponent is never 0 or negative, and the factor is above 1.
C26_MonthsAheadPositive ==
    Forecasted =>
        /\ locals.adj.adjusted <=> DateGreater(locals.target_date, locals.now)
        /\ locals.target_date = [year |-> req.year, month |-> req.month, off |-> 0]
        /\ locals.adj.adjusted =>
               /\ locals.adj.months_ahead >= 1
               /\ locals.adj.months_ahead = RunMonthsAhead
               /\ locals.adj.inflation_factor > FactorScale
        /\ ~locals.adj.adjusted => locals.adj.inflation_factor = FactorScale

\* C26's case: now is the first instant of December 2026 and the target is
\* January 2027: the smallest exponent, 1.
C26_Witness ==
    /\ Answered200
    /\ locals.now = [year |-> 2026, month |-> 12, off |-> 0]
    /\ req.year = 2027 /\ req.month = 1
    /\ locals.adj.adjusted
    /\ locals.adj.months_ahead = 1
    /\ resp.totalPredicted > RawTotal


\* The row the total model returned has yhat_lower <= yhat <= yhat_upper.
ModelOrdered ==
    /\ locals.row.yhat_lower <= locals.row.yhat
    /\ locals.row.yhat <= locals.row.yhat_upper

\* C27: when the total model returns lower <= point <= upper, the clamped
\* values, the values after the inflation step and the rounded values of
\* the response are in the same order:
\* totalPredictedLower <= totalPredicted <= totalPredictedUpper.
C27_BoundsOrdered ==
    (Forecasted /\ ModelOrdered) =>
        /\ locals.total_pred.lower <= locals.total_pred.predicted
        /\ locals.total_pred.predicted <= locals.total_pred.upper
        /\ locals.adj.lower <= locals.adj.predicted
        /\ locals.adj.predicted <= locals.adj.upper
        /\ resp.status = 200 =>
               /\ resp.totalPredictedLower <= resp.totalPredicted
               /\ resp.totalPredicted <= resp.totalPredictedUpper

\* C27's case: a negative lower bound clamped to 0, a positive point and
\* upper bound, adjusted for inflation and rounded, still in order.
C27_Witness ==
    /\ Answered200
    /\ ModelOrdered
    /\ locals.row.yhat_lower < 0
    /\ locals.row.yhat > 0
    /\ locals.adj.adjusted
    /\ resp.totalPredictedLower = 0
    /\ resp.totalPredictedLower < resp.totalPredicted
    /\ resp.totalPredicted < resp.totalPredictedUpper


=============================================================================
